---- MODULE Spec2Model ----
\* The master control plane of piccolo (src/src/master.cc): shard ownership,
\* per-shard kernel dispatch, work stealing and the flush/apply barrier.
\*
\* Time.  Now() is declared outside src/.  Every duration the master computes
\* from it is an input of the action that reads the clock, in hundredths of a
\* second.  Spec takes the clock to be steady (a later reading is never
\* smaller than an earlier one); SpecOps lets two readings differ either way.
EXTENDS Integers, Sequences, FiniteSets, TLC

\* ---------------------------------------------------------------- bounds
NumWorkers == 2      \* config_.num_workers()
MaxShards  == 5      \* largest numShards of a table
MaxEpochs  == 3      \* run() calls explored
MaxStealEpochs == 1  \* run() calls explored with steal_work called on its own
MaxTimedEpochs == 2  \* run() calls explored with shard_time followed

\* ------------------------------------------------------ program constants
PENDING  == 0
ACTIVE   == 1
FINISHED == 2
MinShardCalls   == 10   \* mstats.shard_calls() > 10
MinAvgTime      == 20   \* avg_completion_time > 0.2   (1/100 s)
MinIdleTime     == 50   \* w.idle_time() > 0.5         (1/100 s)
MinCheckGap     == 10   \* lastWorkCheck - Now() > 0.1 (1/100 s)
UnitCost        == 100  \* the 1.0 of std::max(1.0, ...) (1/100 s)

Workers == 0 .. (NumWorkers - 1)
Tables  == {0, 1}
Taskids == Tables \X (0 .. (MaxShards - 1))

\* Inputs of the clock-reading steps (1/100 s).
AvgTimes      == {5, 30, 100}    \* mstats.shard_time() / mstats.shard_calls()
PingAges      == {0, 60}         \* Now() - last_ping_time
SteadyGaps    == {0, 20}         \* Now() - lastWorkCheck, steady clock
AnyGaps       == {-20, 0, 20}    \* Now() - lastWorkCheck, any clock
SteadyRunTimes == {0, 30}        \* Now() - w.last_task_start, steady clock
\* With a clock that may read anything shard_time is any number: it is not
\* followed (a reap adds 0) and the average completion time is an input.
AnyRunTimes    == {0}
UpdatesDone   == {0, 3}          \* FlushResponse.updatesdone()

VARIABLES
  tables,          \* TableRegistry: table id -> numShards
  dead_workers,    \* static std::set<int> dead_workers: file-local, and
                   \* nothing in the file inserts into it
  work_stealing,   \* FLAGS_work_stealing
  shards,          \* WorkerState::shards, per worker
  work,            \* WorkerState::work, per worker: Taskid -> TaskState
  finished_, dispatched_, kernel_epoch_, shards_assigned_,
  current_run_,    \* [table, shards]
  mstats,          \* method_stats_ of the kernel:method run: [calls,
                   \* shard_calls, shard_time, total_time]
  pc,              \* the master's position in run()/barrier()
  flushed, quiescent,   \* locals of the flush round
  run_msgs,        \* RUN_KERNEL delivered to each worker and not yet answered
  done_msgs,       \* KERNEL_DONE in flight: <<worker, Taskid>>
  flush_req,       \* WORKER_FLUSH delivered to a worker and not yet answered
  flush_resp,      \* FLUSH_RESPONSE in flight, per worker: -1 none, else updates_done
  assigned,        \* the ownership map of the last acknowledged SHARD_ASSIGNMENT
  assign_bcasts,   \* SHARD_ASSIGNMENT broadcasts of the last reap-loop iteration
  steal_calls,     \* steal_work() calls of the last reap-loop iteration
  run_sent,        \* RUN_KERNEL sent in this epoch: Taskid -> workers sent to
  quiet_round      \* a flush round of this epoch ended with quiescent still true

vars == << tables, dead_workers, work_stealing, shards, work, finished_, dispatched_,
           kernel_epoch_, shards_assigned_, current_run_, mstats, pc, flushed,
           quiescent, run_msgs, done_msgs, flush_req, flush_resp, assigned,
           assign_bcasts, steal_calls, run_sent,
           quiet_round >>

\* ------------------------------------------------------------- Taskid
\* Taskid::operator<
TidLess(a, b) == a[1] < b[1] \/ (a[1] = b[1] /\ a[2] < b[2])

\* Iteration order of a std::map / std::set keyed by Taskid.
RECURSIVE TidOrder(_)
TidOrder(S) ==
  IF S = {} THEN << >>
  ELSE LET m == CHOOSE x \in S : \A y \in S \ {x} : TidLess(x, y)
       IN  << m >> \o TidOrder(S \ {m})

\* std::max_element: the first element no later element compares greater than.
\* less is the comparison, as the set of pairs <<a, b>> with comp(a, b).
MaxElement(seq, less) ==
  LET f[i \in 1 .. Len(seq)] ==
        IF i = 1 THEN 1
        ELSE IF <<seq[f[i - 1]], seq[i]>> \in less THEN i ELSE f[i - 1]
  IN  seq[f[Len(seq)]]

\* ------------------------------------------------------------ TaskState
TaskState(size) == [status |-> PENDING, size |-> size, stolen |-> FALSE]

WeightCompare(a, b) ==
  IF a.stolen /\ ~b.stolen THEN TRUE ELSE a.size < b.size

\* ----------------------------------------------------------- WorkerState
alive(w) == w \notin dead_workers

TasksWith(wk, st) == {t \in DOMAIN wk : wk[t].status = st}
num_pending(wk)  == Cardinality(TasksWith(wk, PENDING))
num_active(wk)   == Cardinality(TasksWith(wk, ACTIVE))
num_finished(wk) == Cardinality(TasksWith(wk, FINISHED))
pending(wk)      == TidOrder(TasksWith(wk, PENDING))

PendingCompare(a, b) == num_pending(a) < num_pending(b)

\* idle_time(), given Now() - last_ping_time.
idle_time(wk, ping_age) ==
  IF num_finished(wk) # Cardinality(DOMAIN wk) THEN 0 ELSE ping_age

\* The Taskids assign_shard(shard, ...) touches: one per table that has the shard.
ShardIds(tbl, shard) == {<<t, shard>> : t \in {u \in DOMAIN tbl : shard < tbl[u]}}

\* assign_shard that never erases.
assign_shard_keep(tbl, sh, shard, should_service) ==
  [shards |-> sh \cup ShardIds(tbl, shard), ub |-> FALSE]

\* assign_shard: [shards, ub]; erasing shards.find(t) == end() is undefined.
assign_shard(tbl, sh, shard, should_service) ==
  IF should_service
    THEN [shards |-> sh \cup ShardIds(tbl, shard), ub |-> FALSE]
    ELSE [shards |-> sh \ ShardIds(tbl, shard),
          ub     |-> ~(ShardIds(tbl, shard) \subseteq sh)]

assign_task(wk, tid, ts) ==
  [t \in DOMAIN wk \cup {tid} |-> IF t = tid THEN ts ELSE wk[t]]

remove_task(wk, tid) == [t \in DOMAIN wk \ {tid} |-> wk[t]]

EmptyWork == [t \in {} |-> TaskState(1)]

\* set_finished that puts the task back in the queue.
set_finished_requeue(wk, tid) == [wk EXCEPT ![tid].status = PENDING]

\* set_finished without CHECK(t->status == TaskState::ACTIVE).
set_finished_ok_present(wk, tid) == tid \in DOMAIN wk

\* set_finished: both CHECKs, then the status write.
set_finished_ok(wk, tid) == tid \in DOMAIN wk /\ wk[tid].status = ACTIVE
set_finished(wk, tid) == [wk EXCEPT ![tid].status = FINISHED]

\* get_next: [ok, tid, work].
get_next(wk) ==
  LET p == pending(wk) IN
  IF p = << >> THEN [ok |-> FALSE, tid |-> << >>, work |-> wk]
  ELSE LET less == {ab \in (DOMAIN wk) \X (DOMAIN wk) :
                       WeightCompare(wk[ab[1]], wk[ab[2]])}
           best == MaxElement(p, less)
       IN  [ok |-> TRUE, tid |-> best,
            work |-> [wk EXCEPT ![best].status = ACTIVE]]

\* --------------------------------------------------------------- Master
\* The master's view of the workers: [shards, work], each a function of the
\* worker id.
Max(a, b) == IF a < b THEN b ELSE a

NoWorker == -1

worker_for_shard(sh, tid) ==
  IF \E w \in Workers : tid \in sh[w]
    THEN CHOOSE w \in Workers :
           tid \in sh[w] /\ \A v \in Workers : tid \in sh[v] => w <= v
    ELSE NoWorker

\* The loop of assign_worker with <= for <: ties go to the later worker.
BestWorker_last(sh) ==
  LET f[i \in Workers] ==
        LET prev == IF i = 0 THEN NoWorker ELSE f[i - 1] IN
        IF alive(i) /\ (prev = NoWorker
                        \/ Cardinality(sh[i]) <= Cardinality(sh[prev]))
          THEN i ELSE prev
  IN  f[NumWorkers - 1]

\* The loop of assign_worker over workers_: the first alive worker whose
\* shards set is strictly smaller than that of every earlier candidate.
BestWorker(sh) ==
  LET f[i \in Workers] ==
        LET prev == IF i = 0 THEN NoWorker ELSE f[i - 1] IN
        IF alive(i) /\ (prev = NoWorker
                        \/ Cardinality(sh[i]) < Cardinality(sh[prev]))
          THEN i ELSE prev
  IN  f[NumWorkers - 1]

assign_worker(tbl, st, table, shard) ==
  LET tid == <<table, shard>>
      ws  == worker_for_shard(st.shards, tid)
  IN  IF ws # NoWorker
        THEN [st EXCEPT !.work[ws] = assign_task(@, tid, TaskState(1))]
        ELSE LET best == BestWorker(st.shards) IN
             [shards |-> [st.shards EXCEPT
                            ![best] = assign_shard(tbl, @, shard, TRUE).shards],
              work   |-> [st.work EXCEPT
                            ![best] = assign_task(@, tid, TaskState(1))]]

RECURSIVE AssignEach(_, _, _)
AssignEach(tbl, st, tids) ==
  IF tids = << >> THEN st
  ELSE AssignEach(tbl, assign_worker(tbl, st, Head(tids)[1], Head(tids)[2]),
                  Tail(tids))

\* assign_tables: every shard of every table, tables in id order.
assign_tables(tbl, st) ==
  AssignEach(tbl, st,
             TidOrder({tid \in Taskids : tid[2] < tbl[tid[1]]}))

\* assign_tasks without clear_tasks().
assign_tasks_keep(tbl, st, table, shard_list) ==
  AssignEach(tbl, st,
             [i \in 1 .. Len(shard_list) |-> <<table, shard_list[i]>>])

\* assign_tasks: clear every work map, then one task per entry of the list.
assign_tasks(tbl, st, table, shard_list) ==
  AssignEach(tbl,
             [st EXCEPT !.work = [w \in Workers |-> EmptyWork]],
             [i \in 1 .. Len(shard_list) |-> <<table, shard_list[i]>>])

\* max(1.0, x * avg_completion_time / average_size), in 1/100 s; average_size
\* is the mean of numShards ones (not a number when the table has no shard,
\* and std::max(1.0, NaN) is 1.0).
Cost(x, avg, numShards) ==
  IF numShards = 0 THEN UnitCost
  ELSE Max(UnitCost, (x * avg * numShards) \div numShards)

RECURSIVE SumCost(_, _, _, _)
SumCost(wk, tids, avg, numShards) ==
  IF tids = << >> THEN 0
  ELSE Cost(wk[Head(tids)].size, avg, numShards)
         + SumCost(wk, Tail(tids), avg, numShards)

\* The worker steal_work takes from: max_element over workers_ by
\* PendingCompare.
steal_src(wk) ==
  LET less == {ab \in Workers \X Workers :
                 PendingCompare(wk[ab[1]], wk[ab[2]])}
  IN  MaxElement([i \in 1 .. NumWorkers |-> i - 1], less)

\* The task steal_work takes: max_element over src.pending() by WeightCompare.
steal_task(wk_src) ==
  LET less == {ab \in (DOMAIN wk_src) \X (DOMAIN wk_src) :
                 WeightCompare(wk_src[ab[1]], wk_src[ab[2]])}
  IN  MaxElement(pending(wk_src), less)

\* The stolen test left out.
never_stolen(ts) == FALSE

\* if (task->stolen) return false;
already_stolen(ts) == ts.stolen

\* eta <= move_cost
too_costly(wk_src, task, avg, numShards) ==
  SumCost(wk_src, pending(wk_src), avg, numShards)
    <= Cost(2 * wk_src[task].size, avg, numShards)

\* The migration without src.remove_task(task).
steal_move_copy(tbl, st, src, dst, task) ==
  LET add == assign_shard(tbl, st.shards[dst], task[2], TRUE)
      sh1 == [st.shards EXCEPT ![dst] = add.shards]
      del == assign_shard(tbl, sh1[src], task[2], FALSE)
      sh2 == [sh1 EXCEPT ![src] = del.shards]
      ts  == [st.work[src][task] EXCEPT !.stolen = TRUE]
      wk2 == [st.work EXCEPT ![dst] = assign_task(@, task, ts)]
  IN  [ok |-> TRUE, shards |-> sh2, work |-> wk2, ub |-> del.ub]

\* The migration at the end of steal_work: [ok, shards, work, ub].
steal_move(tbl, st, src, dst, task) ==
  LET add == assign_shard(tbl, st.shards[dst], task[2], TRUE)
      sh1 == [st.shards EXCEPT ![dst] = add.shards]
      del == assign_shard(tbl, sh1[src], task[2], FALSE)
      sh2 == [sh1 EXCEPT ![src] = del.shards]
      ts  == [st.work[src][task] EXCEPT !.stolen = TRUE]
      wk1 == [st.work EXCEPT ![src] = remove_task(@, task)]
      wk2 == [wk1 EXCEPT ![dst] = assign_task(@, task, ts)]
  IN  [ok |-> TRUE, shards |-> sh2, work |-> wk2, ub |-> del.ub]

\* steal_work: [ok, shards, work, ub].
steal_work(tbl, stealing, st, table, idle_worker, avg) ==
  LET no   == [ok |-> FALSE, shards |-> st.shards, work |-> st.work,
               ub |-> FALSE]
      dst  == idle_worker
      src  == steal_src(st.work)
      task == steal_task(st.work[src])
  IN  IF ~stealing THEN no
      ELSE IF ~alive(dst) THEN no
      ELSE IF num_pending(st.work[src]) = 0 THEN no
      ELSE IF already_stolen(st.work[src][task]) THEN no
      ELSE IF too_costly(st.work[src], task, avg, tbl[table]) THEN no
      ELSE steal_move(tbl, st, src, dst, task)

\* dispatch_work without the num_active() == 0 test.
dispatch_work_busy(wk) ==
  LET due == {w \in Workers : num_pending(wk[w]) > 0}
  IN  [work  |-> [w \in Workers |->
                    IF w \in due THEN get_next(wk[w]).work ELSE wk[w]],
       sends |-> {<<w, get_next(wk[w]).tid>> : w \in due}]

\* dispatch_work: [work, sends], sends the set of <<worker, Taskid>> of the
\* RUN_KERNEL messages.
dispatch_work(wk) ==
  LET due == {w \in Workers : num_pending(wk[w]) > 0 /\ num_active(wk[w]) = 0}
  IN  [work  |-> [w \in Workers |->
                    IF w \in due THEN get_next(wk[w]).work ELSE wk[w]],
       sends |-> {<<w, get_next(wk[w]).tid>> : w \in due}]

\* send_table_assignments(): the ownership map the workers acknowledge.
send_table_assignments(sh) == sh

\* The re-broadcast left out.
UpdateAssignments_never(need_update, sh, sent) == sent

\* if (need_update) send_table_assignments();
UpdateAssignments(need_update, sh, sent) ==
  IF need_update THEN send_table_assignments(sh) ELSE sent

\* The test without avg_completion_time > 0.2.
worth_stealing_any_avg(shard_calls, avg, idle) ==
  shard_calls > MinShardCalls /\ idle > MinIdleTime

\* Don't try to steal tasks if the payoff is too small.
worth_stealing(shard_calls, avg, idle) ==
  shard_calls > MinShardCalls /\ avg > MinAvgTime /\ idle > MinIdleTime

\* The steal pass of barrier() (the for loop over workers_), from worker i on:
\* [shards, work, need_update, bcasts, calls, sent, ub, tries].  sent is the
\* ownership map of the last send_table_assignments(), tries the
\* steal_work() calls made: [dst, shards, work] at each call.
RECURSIVE StealPass(_, _, _, _, _, _, _)
StealPass(tbl, stealing, acc, table, shard_calls, avg, ping_age) ==
  IF acc.i = NumWorkers THEN acc
  ELSE
    LET w     == acc.i
        st    == [shards |-> acc.shards, work |-> acc.work]
        try   == worth_stealing(shard_calls, avg,
                                idle_time(acc.work[w], ping_age[w]))
        res   == steal_work(tbl, stealing, st, table, w, avg)
        stole == try /\ res.ok
        need  == acc.need_update \/ stole
        sh    == IF stole THEN res.shards ELSE acc.shards
    IN  StealPass(tbl, stealing,
                  [i           |-> w + 1,
                   shards      |-> sh,
                   work        |-> IF stole THEN res.work ELSE acc.work,
                   need_update |-> need,
                   bcasts      |-> IF need THEN acc.bcasts + 1 ELSE acc.bcasts,
                   calls       |-> IF try THEN acc.calls + 1 ELSE acc.calls,
                   sent        |-> UpdateAssignments(need, sh, acc.sent),
                   ub          |-> acc.ub \/ (stole /\ res.ub),
                   tries       |->
                     IF try
                       THEN acc.tries \cup {[dst |-> w, shards |-> acc.shards,
                                             work |-> acc.work]}
                       ELSE acc.tries],
                  table, shard_calls, avg, ping_age)

\* ------------------------------------------------------------ the state
NullTable == -1

\* The registries the master is started with.
TableConfigs ==
  {f \in [Tables -> {0, 1, MaxShards}] : \E t \in Tables : f[t] = MaxShards}

\* RunDescriptor.shards: the first k shards of the table, for every k (none,
\* shard 0 alone, ..., all of them).
ShardLists(numShards) ==
  {[i \in 1 .. k |-> i - 1] : k \in 0 .. numShards}

NoRunSent == [tid \in Taskids |-> << >>]

Init ==
  /\ tables \in TableConfigs
  /\ dead_workers = {}
  /\ work_stealing \in BOOLEAN
  /\ shards = [w \in Workers |-> {}]
  /\ work = [w \in Workers |-> EmptyWork]
  /\ finished_ = 0
  /\ dispatched_ = 0
  /\ kernel_epoch_ = 0
  /\ shards_assigned_ = FALSE
  /\ current_run_ = [table |-> NullTable, shards |-> << >>]
  /\ mstats = [calls |-> 0, shard_calls |-> 0, shard_time |-> 0,
               total_time |-> 0]
  /\ pc = "idle"
  /\ flushed = 0
  /\ quiescent = TRUE
  /\ run_msgs = [w \in Workers |-> << >>]
  /\ done_msgs = {}
  /\ flush_req = [w \in Workers |-> FALSE]
  /\ flush_resp = [w \in Workers |-> -1]
  /\ assigned = [w \in Workers |-> {}]
  /\ assign_bcasts = 0
  /\ steal_calls = 0
  /\ run_sent = NoRunSent
  /\ quiet_round = FALSE

net_vars   == << run_msgs, done_msgs >>
flush_vars == << flushed, quiescent, flush_req, flush_resp, quiet_round >>
conf_vars  == << tables, work_stealing, dead_workers >>

\* network_->Send(w.id + 1, MTYPE_RUN_KERNEL, ...) for every entry of sends.
SendRunKernel(sends) ==
  /\ run_msgs' = [w \in Workers |->
                    IF \E m \in sends : m[1] = w
                      THEN Append(run_msgs[w],
                                  (CHOOSE m \in sends : m[1] = w)[2])
                      ELSE run_msgs[w]]
  /\ run_sent' = [tid \in Taskids |->
                    IF \E m \in sends : m[2] = tid
                      THEN Append(run_sent[tid],
                                  (CHOOSE m \in sends : m[2] = tid)[1])
                      ELSE run_sent[tid]]

\* The CHECKs of run() on its argument: the table is given, the kernel is
\* registered and has the method.
run_checks(table, kernel_ok, method_ok) ==
  table # NullTable /\ kernel_ok /\ method_ok

\* The CHECKs made after assign_tasks() instead of before.
RunAssign_late(tbl, st, was_assigned, table, shard_list, ok) ==
  IF table = NullTable THEN st
  ELSE assign_tasks(tbl,
                    IF was_assigned THEN st ELSE assign_tables(tbl, st),
                    table, shard_list)

\* The workers' [shards, work] after run()'s CHECKs (ok their outcome),
\* assign_tables() on the first run and assign_tasks().
RunAssign(tbl, st, was_assigned, table, shard_list, ok) ==
  IF ~ok THEN st
  ELSE assign_tasks(tbl,
                    IF was_assigned THEN st ELSE assign_tables(tbl, st),
                    table, shard_list)

\* run(), up to and including assign_tasks().  kernel_ok: the registry has
\* r.kernel; method_ok: the kernel has r.method.
RunStart(table, shard_list, kernel_ok, method_ok) ==
  /\ pc = "idle"
  /\ kernel_epoch_ < MaxEpochs
  /\ IF Len(current_run_.shards) # finished_
       THEN /\ pc' = "aborted"
            /\ UNCHANGED << shards, work, finished_, dispatched_,
                            kernel_epoch_, shards_assigned_, current_run_,
                            mstats, assigned, run_sent, quiet_round >>
       ELSE LET ok  == run_checks(table, kernel_ok, method_ok)
                st0 == [shards |-> shards, work |-> work]
                st2 == RunAssign(tables, st0, shards_assigned_, table,
                                 shard_list, ok)
            IN  /\ finished_' = 0
                /\ dispatched_' = 0
                /\ shards' = st2.shards
                /\ work' = st2.work
                /\ IF ok
                     THEN /\ mstats' = [mstats EXCEPT !.calls = @ + 1]
                          /\ current_run_' =
                               [table |-> table, shards |-> shard_list]
                          /\ shards_assigned_' = TRUE
                          /\ assigned' =
                               IF shards_assigned_ THEN assigned
                               ELSE send_table_assignments(
                                      assign_tables(tables, st0).shards)
                          /\ kernel_epoch_' = kernel_epoch_ + 1
                          /\ run_sent' = NoRunSent
                          /\ quiet_round' = FALSE
                          /\ pc' = "run_dispatch"
                     ELSE /\ pc' = "aborted"
                          /\ UNCHANGED << kernel_epoch_, shards_assigned_,
                                          current_run_, mstats, assigned,
                                          run_sent, quiet_round >>
  /\ UNCHANGED << conf_vars, net_vars, flushed, quiescent, flush_req,
                  flush_resp, assign_bcasts, steal_calls >>

\* dispatched_ = dispatch_work(current_run_); then barrier() is entered.
RunDispatch ==
  /\ pc = "run_dispatch"
  /\ LET d == dispatch_work(work) IN
       /\ work' = d.work
       /\ dispatched_' = Cardinality(d.sends)
       /\ SendRunKernel(d.sends)
  /\ pc' = "loop"
  /\ UNCHANGED << conf_vars, shards, finished_, kernel_epoch_,
                  shards_assigned_, current_run_, mstats, flush_vars,
                  done_msgs, assigned, assign_bcasts, steal_calls >>

\* What the steal pass leaves behind, acc being its result (or its start when
\* the pass is not entered).
AfterStealPass(acc) ==
  /\ shards' = acc.shards
  /\ work' = acc.work
  /\ assigned' = acc.sent
  /\ assign_bcasts' = acc.bcasts
  /\ steal_calls' = acc.calls
  /\ pc' \in IF acc.ub THEN {"aborted", "redispatch"} ELSE {"redispatch"}

\* The update of reap_one_task() with shard_time set to the last run time
\* instead of grown by it.
reap_stats_last(ms, run_time) ==
  [ms EXCEPT !.shard_time = run_time, !.shard_calls = @ + 1]

\* mstats after a successful reap_one_task(), run_time being
\* Now() - w.last_task_start.
reap_stats(ms, run_time) ==
  [ms EXCEPT !.shard_time = @ + run_time, !.shard_calls = @ + 1]

\* The work maps once reap_one_task() has read the KERNEL_DONE m.
ReapWork(m) == [work EXCEPT ![m[1]] = set_finished(@, m[2])]

\* The state the steal pass starts from in the iteration that reaps m.
PassStart(m) ==
  [i |-> 0, shards |-> shards, work |-> ReapWork(m), need_update |-> FALSE,
   bcasts |-> 0, calls |-> 0, sent |-> assigned, ub |-> FALSE,
   tries |-> {}]

\* The steal pass of the iteration that reaps m, avg being
\* mstats.shard_time() / mstats.shard_calls() and ping_age each worker's
\* Now() - last_ping_time.
ReapStealPass(m, avg, ping_age) ==
  StealPass(tables, work_stealing, PassStart(m), current_run_.table,
            mstats.shard_calls + 1, avg, ping_age)

\* One pass of the while loop of barrier() up to the steal pass: the loop
\* test, reap_one_task(), finished_++ and the steal pass.  gap is
\* Now() - lastWorkCheck at the test of the steal pass.  The total_time
\* update of barrier() comes after the flush rounds and is never reached.
BarrierReap(Gaps, RunTimes) ==
  /\ pc = "loop"
  /\ finished_ < Len(current_run_.shards)
  /\ \/ \* TryRead finds no KERNEL_DONE: Sleep, -1, on to the flush phase.
        /\ pc' = "flush"
        /\ assign_bcasts' = 0
        /\ steal_calls' = 0
        /\ UNCHANGED << shards, work, finished_, mstats, done_msgs, assigned >>
     \/ \E m \in done_msgs :
          LET w == m[1]  tid == m[2] IN
          /\ done_msgs' = done_msgs \ {m}
          /\ IF ~set_finished_ok(work[w], tid)
               THEN /\ pc' = "aborted"
                    /\ assign_bcasts' = 0
                    /\ steal_calls' = 0
                    /\ UNCHANGED << shards, work, finished_, mstats, assigned >>
               ELSE
                 /\ \E run_time \in RunTimes :
                      mstats' = reap_stats(mstats, run_time)
                 /\ finished_' = finished_ + 1
                 /\ \E gap \in Gaps :
                      IF 0 - gap > MinCheckGap
                        THEN \E avg \in AvgTimes,
                                ping_age \in [Workers -> PingAges] :
                               AfterStealPass(ReapStealPass(m, avg, ping_age))
                        ELSE AfterStealPass(PassStart(m))
  /\ UNCHANGED << conf_vars, dispatched_, kernel_epoch_, shards_assigned_,
                  current_run_, flush_vars, run_msgs, run_sent >>

\* dispatched_ = dispatch_work(current_run_) in the loop, in place of +=.
add_dispatched_set(dispatched, num_dispatched) == num_dispatched

\* dispatched_ += dispatch_work(current_run_).
add_dispatched(dispatched, num_dispatched) == dispatched + num_dispatched

\* if (dispatched_ < shards.size()) dispatched_ += dispatch_work(...); the
\* flush phase follows inside the loop.
BarrierDispatch ==
  /\ pc = "redispatch"
  /\ IF dispatched_ < Len(current_run_.shards)
       THEN LET d == dispatch_work(work) IN
              /\ work' = d.work
              /\ dispatched_' =
                   add_dispatched(dispatched_, Cardinality(d.sends))
              /\ SendRunKernel(d.sends)
       ELSE UNCHANGED << work, dispatched_, run_msgs, run_sent >>
  /\ pc' = "flush"
  /\ UNCHANGED << conf_vars, shards, finished_, kernel_epoch_,
                  shards_assigned_, current_run_, mstats, flush_vars,
                  done_msgs, assigned, assign_bcasts, steal_calls >>

\* The loop test fails: barrier() and run() return.
BarrierReturn ==
  /\ pc = "loop"
  /\ ~(finished_ < Len(current_run_.shards))
  /\ pc' = "idle"
  /\ UNCHANGED << conf_vars, shards, work, finished_, dispatched_,
                  kernel_epoch_, shards_assigned_, current_run_, mstats,
                  flush_vars, net_vars, assigned, assign_bcasts, steal_calls,
                  run_sent >>

\* do { quiescent = true; Broadcast(MTYPE_WORKER_FLUSH); flushed = 0;
FlushBroadcast ==
  /\ pc = "flush"
  /\ quiescent' = TRUE
  /\ flushed' = 0
  /\ flush_req' = [w \in Workers |-> TRUE]
  /\ pc' = "flushwait"
  /\ UNCHANGED << conf_vars, shards, work, finished_, dispatched_,
                  kernel_epoch_, shards_assigned_, current_run_, mstats,
                  flush_resp, quiet_round, net_vars, assigned, assign_bcasts,
                  steal_calls, run_sent >>

\* while (flushed < workers_.size()): one successful TryRead of a
\* FLUSH_RESPONSE (a failed one sleeps and changes nothing).
FlushRead ==
  /\ pc = "flushwait"
  /\ flushed < NumWorkers
  /\ \E w \in Workers :
       /\ flush_resp[w] >= 0
       /\ flushed' = flushed + 1
       /\ quiescent' = IF flush_resp[w] > 0 THEN FALSE ELSE quiescent
       /\ flush_resp' = [flush_resp EXCEPT ![w] = -1]
  /\ UNCHANGED << conf_vars, shards, work, finished_, dispatched_,
                  kernel_epoch_, shards_assigned_, current_run_, mstats, pc,
                  flush_req, quiet_round, net_vars, assigned, assign_bcasts,
                  steal_calls, run_sent >>

\* } while (1): the round is over and the next one starts, whatever
\* quiescent is.
FlushRepeat ==
  /\ pc = "flushwait"
  /\ ~(flushed < NumWorkers)
  /\ quiet_round' = (quiet_round \/ quiescent)
  /\ pc' = "flush"
  /\ UNCHANGED << conf_vars, shards, work, finished_, dispatched_,
                  kernel_epoch_, shards_assigned_, current_run_, mstats,
                  flushed, quiescent, flush_req, flush_resp, net_vars,
                  assigned, assign_bcasts, steal_calls,
                  run_sent >>

\* --------------------------------------------------------------- workers
\* A worker runs the kernel of its oldest RUN_KERNEL and sends KERNEL_DONE.
WorkerKernelDone(w) ==
  /\ run_msgs[w] # << >>
  /\ run_msgs' = [run_msgs EXCEPT ![w] = Tail(@)]
  /\ done_msgs' = done_msgs \cup {<<w, Head(run_msgs[w])>>}
  /\ UNCHANGED << conf_vars, shards, work, finished_, dispatched_,
                  kernel_epoch_, shards_assigned_, current_run_, mstats, pc,
                  flush_vars, assigned, assign_bcasts, steal_calls,
                  run_sent >>

\* A worker answers WORKER_FLUSH with FLUSH_RESPONSE{updates_done}.
WorkerFlush(w) ==
  /\ flush_req[w]
  /\ \E u \in UpdatesDone :
       flush_resp' = [flush_resp EXCEPT ![w] = u]
  /\ flush_req' = [flush_req EXCEPT ![w] = FALSE]
  /\ UNCHANGED << conf_vars, shards, work, finished_, dispatched_,
                  kernel_epoch_, shards_assigned_, current_run_, mstats, pc,
                  flushed, quiescent, quiet_round, net_vars, assigned,
                  assign_bcasts, steal_calls, run_sent >>

\* The caller of run(): any registered table or none, any list of its
\* shards, a kernel and a method that are registered or not.
Run ==
  \E table \in Tables \cup {NullTable}, kernel_ok \in BOOLEAN,
     method_ok \in BOOLEAN :
    \E shard_list \in IF table = NullTable THEN {<< >>}
                      ELSE ShardLists(tables[table]) :
      RunStart(table, shard_list, kernel_ok, method_ok)

Reap == BarrierReap(SteadyGaps, SteadyRunTimes)

KernelDone == \E w \in Workers : WorkerKernelDone(w)

Flush == \E w \in Workers : WorkerFlush(w)

Next ==
  \/ Run
  \/ RunDispatch
  \/ Reap
  \/ BarrierDispatch
  \/ BarrierReturn
  \/ FlushBroadcast
  \/ FlushRead
  \/ FlushRepeat
  \/ KernelDone
  \/ Flush

Spec == Init /\ [][Next]_vars

\* Spec with the scheduling the code has: the master's loop keeps running and
\* every worker answers what it is sent.  Calls of run() are up to the caller.
FairSpec ==
  /\ Spec
  /\ WF_vars(RunDispatch)
  /\ WF_vars(Reap)
  /\ WF_vars(BarrierDispatch)
  /\ WF_vars(BarrierReturn)
  /\ WF_vars(FlushBroadcast)
  /\ WF_vars(FlushRead)
  /\ WF_vars(FlushRepeat)
  /\ \A w \in Workers : WF_vars(WorkerKernelDone(w))
  /\ \A w \in Workers : WF_vars(WorkerFlush(w))

\* The work loop of barrier() on its own: the flush rounds, which change
\* nothing but their own locals and never end, are passed over, and the clock
\* may read anything.
SkipFlush ==
  /\ pc = "flush"
  /\ pc' = "loop"
  /\ UNCHANGED << conf_vars, shards, work, finished_, dispatched_,
                  kernel_epoch_, shards_assigned_, current_run_, mstats,
                  flush_vars, net_vars, assigned, assign_bcasts, steal_calls,
                  run_sent >>

ReapAnyClock == BarrierReap(AnyGaps, AnyRunTimes)

NextOps ==
  \/ Run
  \/ RunDispatch
  \/ ReapAnyClock
  \/ BarrierDispatch
  \/ SkipFlush
  \/ BarrierReturn
  \/ KernelDone

SpecOps == Init /\ [][NextOps]_vars

\* steal_work called on its own, for any worker and average time, while an
\* epoch's work loop runs; a successful steal is followed by
\* send_table_assignments(), as in barrier().
StealCall(w, avg) ==
  /\ pc = "loop"
  /\ finished_ < Len(current_run_.shards)
  /\ LET res == steal_work(tables, work_stealing,
                           [shards |-> shards, work |-> work],
                           current_run_.table, w, avg)
     IN  /\ shards' = res.shards
         /\ work' = res.work
         /\ assigned' = UpdateAssignments(res.ok, res.shards, assigned)
         /\ pc' \in IF res.ub THEN {"aborted", "loop"} ELSE {"loop"}
  /\ UNCHANGED << conf_vars, finished_, dispatched_, kernel_epoch_,
                  shards_assigned_, current_run_, mstats, flush_vars,
                  net_vars, assign_bcasts, steal_calls, run_sent >>

Steal == \E w \in Workers, avg \in AvgTimes : StealCall(w, avg)

RunFew == kernel_epoch_ < MaxStealEpochs /\ Run

NextSteal ==
  \/ RunFew
  \/ RunDispatch
  \/ ReapAnyClock
  \/ BarrierDispatch
  \/ SkipFlush
  \/ BarrierReturn
  \/ KernelDone
  \/ Steal

SpecSteal == Init /\ [][NextSteal]_vars

\* The death of a worker as the spec has it: signalled from outside the
\* master, by insertion of the worker's id into dead_workers.  It is taken
\* between two runs and leaves one worker alive.
WorkerDies(w) ==
  /\ pc = "idle"
  /\ w \notin dead_workers
  /\ Cardinality(dead_workers) < NumWorkers - 1
  /\ dead_workers' = dead_workers \cup {w}
  /\ UNCHANGED << tables, work_stealing, shards, work, finished_,
                  dispatched_, kernel_epoch_, shards_assigned_, current_run_,
                  mstats, pc, flush_vars, net_vars, assigned, assign_bcasts,
                  steal_calls, run_sent >>

Die == \E w \in Workers : WorkerDies(w)

\* Spec with workers dying.
NextDeath ==
  \/ Run
  \/ RunDispatch
  \/ Reap
  \/ BarrierDispatch
  \/ BarrierReturn
  \/ FlushBroadcast
  \/ FlushRead
  \/ FlushRepeat
  \/ KernelDone
  \/ Flush
  \/ Die

SpecDeath == Init /\ [][NextDeath]_vars

\* SpecOps with workers dying.
NextOpsDeath ==
  \/ Run
  \/ RunDispatch
  \/ ReapAnyClock
  \/ BarrierDispatch
  \/ SkipFlush
  \/ BarrierReturn
  \/ KernelDone
  \/ Die

SpecOpsDeath == Init /\ [][NextOpsDeath]_vars

\* The Taskids a stray KERNEL_DONE from worker w may name: of the tasks of the
\* run's table that are not in w's work map, of w's Pending tasks and of w's
\* Finished tasks, the one with the lowest shard each.
StrayIds(w) ==
  LET A == {t \in Taskids : t[1] = current_run_.table} \ DOMAIN work[w]
      P == TasksWith(work[w], PENDING)
      F == TasksWith(work[w], FINISHED)
  IN  {t \in A \cup P \cup F :
         \E S \in {A, P, F} : t \in S /\ \A u \in S : t[2] <= u[2]}

\* A KERNEL_DONE that answers no RUN_KERNEL: TryRead takes MTYPE_KERNEL_DONE
\* from ANY_SOURCE, so what reap_one_task() reads is whatever a peer sent.
\* One stray at a time: it arrives while the loop of barrier() is about to
\* read, no KERNEL_DONE waits and no earlier stray has been taken for the
\* answer to a RUN_KERNEL that a worker still holds.
StrayKernelDone(w, tid) ==
  /\ pc = "loop"
  /\ finished_ < Len(current_run_.shards)
  /\ done_msgs = {}
  /\ \A v \in Workers : \A i \in 1 .. Len(run_msgs[v]) :
       set_finished_ok(work[v], run_msgs[v][i])
  /\ tid \in StrayIds(w)
  /\ done_msgs' = done_msgs \cup {<<w, tid>>}
  /\ UNCHANGED << conf_vars, shards, work, finished_, dispatched_,
                  kernel_epoch_, shards_assigned_, current_run_, mstats, pc,
                  flush_vars, run_msgs, assigned, assign_bcasts, steal_calls,
                  run_sent >>

Stray == \E w \in Workers, tid \in Taskids : StrayKernelDone(w, tid)

\* The loop of barrier() with a steady clock, shard_time not followed.
ReapNoSteal == BarrierReap(SteadyGaps, AnyRunTimes)

\* The work loop of barrier(), flush rounds passed over, with KERNEL_DONE
\* messages the master did not ask for.
NextStray ==
  \/ RunFew
  \/ RunDispatch
  \/ ReapNoSteal
  \/ BarrierDispatch
  \/ SkipFlush
  \/ BarrierReturn
  \/ KernelDone
  \/ Stray

SpecStray == Init /\ [][NextStray]_vars

\* The work loop of barrier() on its own with a steady clock: the flush
\* rounds are passed over, the steal pass is never entered.
RunTimed == kernel_epoch_ < MaxTimedEpochs /\ Run

NextSteady ==
  \/ RunTimed
  \/ RunDispatch
  \/ Reap
  \/ BarrierDispatch
  \/ SkipFlush
  \/ BarrierReturn
  \/ KernelDone

SpecSteady == Init /\ [][NextSteady]_vars


\* ================================================================ claims
NumShardsRun == Len(current_run_.shards)

\* C1  Epoch completion: a run with a non-empty shard_list whose workers
\* answer every RUN_KERNEL and WORKER_FLUSH eventually has
\* finished == |shard_list| and returns from run()/barrier().
C1_EpochCompletion ==
  (pc = "run_dispatch" /\ NumShardsRun > 0)
    ~> (pc = "idle" /\ finished_ = NumShardsRun)

\* C2  The flush phase starts only after the work loop: WORKER_FLUSH has not
\* been broadcast in an epoch while finished < |shard_list|.
C2_FlushAfterWorkLoop ==
  pc = "flushwait" => finished_ = NumShardsRun

\* C3  Flush loop then apply: once a flush round has ended with every
\* worker reporting updates_done == 0, the master broadcasts no further
\* WORKER_FLUSH in the epoch.
C3_StopFlushingWhenQuiet ==
  [][quiet_round => ~(pc = "flush" /\ pc' = "flushwait")]_vars

\* C4  Flush quiescence: barrier() returns only after a completed flush round
\* in which every worker reported updates_done == 0, whatever the shard_list.
C4_FlushQuiescence ==
  (pc = "idle" /\ kernel_epoch_ > 0) => quiet_round

\* The workers holding a task of the epoch, and whether any task is stolen.
Holders(tid) == {w \in Workers : tid \in DOMAIN work[w]}
Owners(tid)  == {w \in Workers : alive(w) /\ tid \in shards[w]}
StolenTasks  == {tid \in Taskids :
                   \E w \in Holders(tid) : work[w][tid].stolen}

\* C5  Unique ownership: once the initial assignment is made, every shard
\* of every registered table is in the shards set of exactly one alive
\* worker, between epochs and after every steal.
C5_UniqueOwnership ==
  shards_assigned_ =>
    \A tid \in Taskids :
      tid[2] < tables[tid[1]] => Cardinality(Owners(tid)) = 1

\* An epoch has ended in which a task was stolen, with a second table
\* sharing the stolen shard's index.
C5_Witness ==
  /\ pc = "idle"
  /\ \E tid \in StolenTasks :
       \A t \in Tables : tid[2] < tables[t]

\* RUN_KERNEL for tid goes to worker w in this step.
SendsTo(w, tid) ==
  /\ Len(run_sent'[tid]) = Len(run_sent[tid]) + 1
  /\ run_sent'[tid][Len(run_sent'[tid])] = w

\* C6  One active task per worker: no worker ever has two Active tasks,
\* and RUN_KERNEL goes to a worker only when it has a Pending task and no
\* Active one.
C6_OneActivePerWorker ==
  /\ [](\A w \in Workers : num_active(work[w]) <= 1)
  /\ [][\A w \in Workers : \A tid \in Taskids :
          SendsTo(w, tid) =>
            num_pending(work[w]) > 0 /\ num_active(work[w]) = 0]_vars

\* A worker that has been dispatched again after a reap and still has a
\* task waiting.
C6_Witness ==
  \E w \in Workers :
    /\ num_finished(work[w]) > 0
    /\ num_active(work[w]) = 1
    /\ num_pending(work[w]) > 0

\* C7  Within an epoch RUN_KERNEL for a Taskid is sent at most once in
\* total, stolen or not.
C7_RunKernelOnce ==
  \A tid \in Taskids : Len(run_sent[tid]) <= 1

\* An epoch with a stolen task has run all its tasks.
C7_Witness ==
  /\ StolenTasks # {}
  /\ NumShardsRun > 0
  /\ finished_ = NumShardsRun
  /\ \A i \in 1 .. NumShardsRun :
       Len(run_sent[<<current_run_.table, current_run_.shards[i]>>]) = 1

\* C8  RUN_KERNEL{table, shard} goes to worker w only when the last
\* acknowledged SHARD_ASSIGNMENT maps (table, shard) to w and to no other.
C8_AssignmentBeforeRun ==
  [][\A w \in Workers : \A tid \in Taskids :
       SendsTo(w, tid) =>
         /\ tid \in assigned[w]
         /\ \A v \in Workers \ {w} : tid \notin assigned[v]]_vars

\* A stolen task has been sent to the worker that stole it.
C8_Witness ==
  \E tid \in StolenTasks :
    /\ run_sent[tid] # << >>
    /\ work[run_sent[tid][1]][tid].stolen
    /\ tid \in assigned[run_sent[tid][1]]

\* The statuses a Taskid has across the work maps.
StatusSet(tid) == {work[w][tid].status : w \in Holders(tid)}

\* C9  Monotone task status: within an epoch a task stays in the work maps
\* and its status stays or moves Pending -> Active or Active -> Finished.
C9_MonotoneStatus ==
  [][kernel_epoch_' = kernel_epoch_ =>
       \A tid \in Taskids :
         StatusSet(tid) # {} =>
           /\ StatusSet(tid)' # {}
           /\ \A a \in StatusSet(tid) : \A b \in StatusSet(tid)' :
                b = a \/ (a = PENDING /\ b = ACTIVE)
                      \/ (a = ACTIVE /\ b = FINISHED)]_vars

\* A stolen task is Finished while another task is still Active.
C9_Witness ==
  /\ \E tid \in StolenTasks : StatusSet(tid) = {FINISHED}
  /\ \E w \in Workers : num_active(work[w]) = 1

\* C10  Steal idempotence: within an epoch a task whose stolen flag is set
\* stays in the work map it is in and the ownership of its shard stays as it
\* is; a task changes work maps only as its flag goes from false to true.
C10_StealOnce ==
  [][kernel_epoch_' = kernel_epoch_ =>
       \A tid \in Taskids :
         /\ tid \in StolenTasks =>
              /\ Holders(tid)' = Holders(tid)
              /\ \A w \in Workers : (tid \in shards'[w]) <=> (tid \in shards[w])
         /\ (Holders(tid) # {} /\ Holders(tid)' # Holders(tid)) =>
              /\ tid \notin StolenTasks
              /\ tid \in StolenTasks']_vars

\* steal_work is called where the task it picks is already stolen: all the
\* pending tasks of the most loaded worker are.
C10_Witness ==
  /\ pc = "loop"
  /\ finished_ < NumShardsRun
  /\ work_stealing
  /\ num_pending(work[steal_src(work)]) > 1
  /\ already_stolen(
       work[steal_src(work)][steal_task(work[steal_src(work)])])

\* The tables that have shards, and the spread of the workers' shards sets.
TablesWithShards == {t \in Tables : tables[t] > 0}
ShardCounts == {Cardinality(shards[w]) : w \in Workers}

\* C11  Balanced initial assignment: with one table of S shards and every
\* worker alive and owning nothing, assign_tables gives shard j to worker
\* j mod W, so the largest and the smallest shards set differ by at most 1.
C11_BalancedAssignment ==
  [][(~shards_assigned_ /\ shards_assigned_'
        /\ Cardinality(TablesWithShards) = 1) =>
       /\ \A tid \in Taskids :
            tid[2] < tables[tid[1]] =>
              \A w \in Workers :
                (tid \in shards'[w]) <=> (w = tid[2] % NumWorkers)
       /\ \A a \in ShardCounts' : \A b \in ShardCounts' : a - b <= 1]_vars

\* The first run() has assigned the MaxShards shards of the only table that
\* has shards, more shards than there are workers.
C11_Witness ==
  /\ pc = "run_dispatch"
  /\ kernel_epoch_ = 1
  /\ Cardinality(TablesWithShards) = 1
  /\ \E t \in TablesWithShards : tables[t] = MaxShards
  /\ MaxShards > NumWorkers
  /\ \A w \in Workers : shards[w] # {}

\* The KERNEL_DONE messages the next reap can read, and the one reap that
\* leaves worker 0 with all of its tasks Finished and worker 1 with a
\* Pending one, in a run of 4 shards on 2 workers with stealing on and more
\* than MinShardCalls shards reaped.
Reapable ==
  IF pc = "loop" /\ finished_ < NumShardsRun
    THEN {m \in done_msgs : set_finished_ok(work[m[1]], m[2])}
    ELSE {}

Straggler(m) ==
  /\ NumWorkers = 2
  /\ NumShardsRun = 4
  /\ work_stealing
  /\ mstats.shard_calls + 1 > MinShardCalls
  /\ Cardinality(DOMAIN ReapWork(m)[0]) = 2
  /\ num_finished(ReapWork(m)[0]) = 2
  /\ num_pending(ReapWork(m)[1]) > 0

\* C12  Straggler triggers a steal: in the straggler setup, with an average
\* completion time of 1.0 s and worker 0 idle for more than 0.5 s, the reap
\* iteration moves one of worker 1's Pending tasks to worker 0 with stolen
\* set, and SHARD_ASSIGNMENT is broadcast again.
C12_StragglerSteals ==
  \A m \in Reapable :
    Straggler(m) =>
      LET acc == ReapStealPass(m, 100,
                               [w \in Workers |-> IF w = 0 THEN 60 ELSE 0])
      IN  /\ \E tid \in TasksWith(ReapWork(m)[1], PENDING) :
                /\ tid \notin DOMAIN acc.work[1]
                /\ tid \in DOMAIN acc.work[0]
                /\ acc.work[0][tid].status = PENDING
                /\ acc.work[0][tid].stolen
          /\ acc.bcasts >= 1

\* C13  Steal suppressed by cost: a reap iteration whose average completion
\* time is 0.05 s (any average not above 0.2 s) migrates no task, changes no
\* shard ownership, sets no stolen flag and broadcasts no SHARD_ASSIGNMENT,
\* whatever the idle times.
C13_NoStealWhenCheap ==
  \A m \in Reapable :
    \A avg \in {a \in AvgTimes : a <= MinAvgTime} :
      \A ping_age \in [Workers -> PingAges] :
        LET acc == ReapStealPass(m, avg, ping_age)
        IN  /\ acc.shards = shards
            /\ acc.work = ReapWork(m)
            /\ acc.bcasts = 0

\* The straggler setup is reached, 0.05 s being one of the averages read.
C13_Witness ==
  /\ 5 \in AvgTimes
  /\ \E m \in Reapable : Straggler(m)

\* C14  Precondition abort: a run() that fails one of its CHECKs (previous
\* run unfinished, no table, unknown kernel, unknown method) aborts without
\* sending RUN_KERNEL or SHARD_ASSIGNMENT and without changing any worker's
\* shards or work.
C14_AbortBeforeEffects ==
  [][(pc = "idle" /\ pc' = "aborted") =>
       /\ shards' = shards
       /\ work' = work
       /\ run_msgs' = run_msgs
       /\ run_sent' = run_sent
       /\ assigned' = assigned
       /\ assign_bcasts' = assign_bcasts]_vars

\* A run() has aborted after an epoch that ran tasks, whose Finished tasks
\* are still in the work maps.
C14_Witness ==
  /\ pc = "aborted"
  /\ kernel_epoch_ > 0
  /\ dispatched_ = 0
  /\ finished_ = 0
  /\ NumShardsRun > 0
  /\ \A i \in 1 .. NumShardsRun :
       \E w \in Workers :
         /\ <<current_run_.table, current_run_.shards[i]>> \in DOMAIN work[w]
         /\ work[w][<<current_run_.table, current_run_.shards[i]>>].status
              = FINISHED

\* C15  Stats monotonicity: with a steady clock calls, shard_calls,
\* shard_time and total_time never decrease; calls grows by exactly 1 in an
\* accepted run() and in no other step, shard_calls by exactly 1 in a
\* successful reap and in no other step.
C15_StatsMonotone ==
  [][/\ mstats'.calls >= mstats.calls
     /\ mstats'.shard_calls >= mstats.shard_calls
     /\ mstats'.shard_time >= mstats.shard_time
     /\ mstats'.total_time >= mstats.total_time
     /\ mstats'.calls =
          IF pc = "idle" /\ pc' = "run_dispatch"
            THEN mstats.calls + 1 ELSE mstats.calls
     /\ mstats'.shard_calls =
          IF pc = "loop" /\ finished_' = finished_ + 1
            THEN mstats.shard_calls + 1 ELSE mstats.shard_calls]_vars

\* Two runs have been accepted and several tasks reaped, some of them with a
\* run time above 0.
C15_Witness ==
  /\ mstats.calls >= 2
  /\ mstats.shard_calls >= 3
  /\ mstats.shard_calls = finished_
  /\ mstats.shard_time > 0

\* Whether tid is the best Pending task of the work map wk as the claim has
\* it: a stolen one when any Pending task is stolen, else one of maximal
\* size.
BestPending(wk, tid) ==
  IF \E t \in TasksWith(wk, PENDING) : wk[t].stolen
    THEN wk[tid].stolen
    ELSE \A t \in TasksWith(wk, PENDING) : wk[t].size <= wk[tid].size

\* C16  Best-pending selection: on every worker with Pending tasks the task
\* get_next takes, and the task steal_work takes from it as the source, is a
\* stolen one whenever any Pending task is stolen and otherwise one of
\* maximal size.
C16_BestPendingChosen ==
  \A w \in Workers :
    num_pending(work[w]) > 0 =>
      /\ BestPending(work[w], get_next(work[w]).tid)
      /\ BestPending(work[w], steal_task(work[w]))

\* In this step the ownership of tid changes; the task tid changes work maps.
OwnerChanged(tid) ==
  \E w \in Workers : (tid \in shards[w]) # (tid \in shards'[w])

Migrates(tid) == Holders(tid) # {} /\ Holders(tid)' # Holders(tid)

\* C17  Steal frame: within an epoch a task that changes work maps leaves
\* src.work and src.shards and enters dst.work, Pending and stolen, and
\* dst.shards; the ownership of every other (table, shard) pair, the same
\* shard index in other tables included, and the place and stolen flag of
\* every other task stay as they are.
C17_StealFrame ==
  [][kernel_epoch_' = kernel_epoch_ =>
       \A tid \in Taskids :
         /\ OwnerChanged(tid) => Migrates(tid)
         /\ Migrates(tid) =>
              \E src \in Workers : \E dst \in Workers \ {src} :
                /\ Holders(tid) = {src}
                /\ Holders(tid)' = {dst}
                /\ tid \in shards[src] /\ tid \notin shards'[src]
                /\ tid \notin shards[dst] /\ tid \in shards'[dst]
                /\ work'[dst][tid] =
                     [work[src][tid] EXCEPT !.status = PENDING,
                                            !.stolen = TRUE]
         /\ (Holders(tid) # {} /\ ~Migrates(tid)) =>
              \A w \in Holders(tid) :
                /\ work'[w][tid].stolen = work[w][tid].stolen
                /\ work'[w][tid].size = work[w][tid].size]_vars

\* This step is one iteration of the reap loop of barrier().
ReapIteration == pc = "loop" /\ pc' \in {"flush", "redispatch", "aborted"}

\* C18  Re-broadcast once per iteration: one iteration of the reap loop
\* broadcasts SHARD_ASSIGNMENT at most once, and not at all when no task was
\* stolen in it.
C18_RebroadcastOnce ==
  [][ReapIteration =>
       /\ assign_bcasts' <= 1
       /\ (StolenTasks' = StolenTasks => assign_bcasts' = 0)]_vars

\* The master is inside run(): assign_tasks() is done, barrier() has not
\* returned.
InEpoch == pc \in {"run_dispatch", "loop", "redispatch", "flush", "flushwait"}

\* C19  Dead workers get no work: in a run started after a worker's id went
\* into dead_workers every task sits on an alive worker that owns the task's
\* shard, and no RUN_KERNEL of the run goes to a dead worker.
C19_DeadGetNoWork ==
  InEpoch =>
    /\ \A tid \in Taskids : \A w \in Holders(tid) :
         alive(w) /\ tid \in shards[w]
    /\ \A tid \in Taskids : \A i \in 1 .. Len(run_sent[tid]) :
         alive(run_sent[tid][i])

\* The Taskids of the current run, and the tasks in the work maps.
RunTids ==
  {<<current_run_.table, current_run_.shards[i]>> : i \in 1 .. NumShardsRun}

Placed == {wt \in Workers \X Taskids : wt[2] \in DOMAIN work[wt[1]]}

\* C20  Epoch task set-up: after assign_tasks the work maps hold
\* |shard_list| tasks in all, one per entry of the shard list and none of an
\* earlier epoch, each Pending with size 1 and stolen = false; then and for
\* the rest of the epoch every task is in the work map of a worker that has
\* the task's (table, shard) in its shards.
C20_EpochTasks ==
  /\ pc = "run_dispatch" =>
       /\ Cardinality(Placed) = NumShardsRun
       /\ \A tid \in RunTids : Holders(tid) # {}
       /\ \A wt \in Placed :
            /\ wt[2] \in RunTids
            /\ work[wt[1]][wt[2]] = TaskState(1)
  /\ InEpoch => \A wt \in Placed : wt[2] \in shards[wt[1]]

\* In a second or later epoch a task has been stolen: it sits on the worker
\* that stole it, and the earlier epoch ran tasks of its own.
C20_Witness ==
  /\ InEpoch
  /\ kernel_epoch_ >= 2
  /\ mstats.shard_calls > finished_
  /\ StolenTasks # {}

\* The steal_work() calls the next reap iteration can make: [dst, shards,
\* work, avg] for every KERNEL_DONE it can read and every reading of the
\* clock.
StealTries ==
  UNION {{[dst |-> t.dst, shards |-> t.shards, work |-> t.work, avg |-> avg] :
            t \in ReapStealPass(m, avg, ping_age).tries} :
         m \in Reapable, avg \in AvgTimes,
         ping_age \in [Workers -> PingAges]}

\* The largest num_pending of an alive worker.
MaxAlivePending(wk) ==
  LET n == {num_pending(wk[w]) : w \in {v \in Workers : alive(v)}}
  IN  CHOOSE x \in n : \A y \in n : y <= x

\* C21  Steal source selection: in every steal attempt of the barrier the
\* source's num_pending is the largest among the alive workers and, when
\* that number is above 0, the source is alive and is not the idle
\* destination; when it is 0, the destination is dead or work_stealing is
\* off, the attempt returns false and leaves shards and work as they are.
C21_StealSource ==
  \A t \in StealTries :
    LET src == steal_src(t.work)
        res == steal_work(tables, work_stealing,
                          [shards |-> t.shards, work |-> t.work],
                          current_run_.table, t.dst, t.avg)
    IN  /\ num_pending(t.work[src]) = MaxAlivePending(t.work)
        /\ num_pending(t.work[src]) > 0 => (alive(src) /\ src # t.dst)
        /\ (num_pending(t.work[src]) = 0 \/ ~alive(t.dst) \/ ~work_stealing)
             => (~res.ok /\ res.shards = t.shards /\ res.work = t.work)

\* The RUN_KERNEL messages sent in the epoch, as <<Taskid, position>>.
RunKernelsSent ==
  {ti \in Taskids \X (1 .. MaxShards) : ti[2] <= Len(run_sent[ti[1]])}

\* The tasks of the work maps with a status of S, as <<worker, Taskid>>.
PlacedWith(S) == {wt \in Placed : work[wt[1]][wt[2]].status \in S}

\* C22  In every state of an epoch finished_ <= dispatched_ <= the length of
\* the shard list, dispatched_ is the number of RUN_KERNEL messages sent in
\* the epoch and the number of tasks that are Active or Finished, and
\* finished_ is the number of Finished tasks.
C22_CounterConsistency ==
  InEpoch =>
    /\ finished_ <= dispatched_
    /\ dispatched_ <= NumShardsRun
    /\ dispatched_ = Cardinality(RunKernelsSent)
    /\ dispatched_ = Cardinality(PlacedWith({ACTIVE, FINISHED}))
    /\ finished_ = Cardinality(PlacedWith({FINISHED}))

\* An epoch with tasks Finished, tasks Active and tasks still Pending, past
\* a dispatch in the loop of barrier().
C22_Witness ==
  /\ InEpoch
  /\ 0 < finished_
  /\ finished_ < dispatched_
  /\ dispatched_ < NumShardsRun
  /\ dispatched_ > NumWorkers

\* The statuses a Taskid has in the work maps wk.
TaskStatus(wk, tid) ==
  {wk[w][tid].status : w \in {v \in Workers : tid \in DOMAIN wk[v]}}

\* A step of barrier() in which reap_one_task() reads the KERNEL_DONE m.
ReadsDone(m) == pc = "loop" /\ m \in done_msgs /\ done_msgs' = done_msgs \ {m}

\* C23  A KERNEL_DONE from worker w for Taskid id marks exactly that task
\* Finished and leaves the status of every other task unchanged; if id is
\* not in w's work map or its status is not Active, the master aborts, marks
\* nothing Finished and does not advance finished_.
C23_ReapValidity ==
  [][\A m \in done_msgs :
       ReadsDone(m) =>
         LET w == m[1]  id == m[2] IN
         IF id \in DOMAIN work[w] /\ work[w][id].status = ACTIVE
           THEN /\ id \in DOMAIN work'[w]
                /\ work'[w][id].status = FINISHED
                /\ TaskStatus(work', id) = {FINISHED}
                /\ \A tid \in Taskids \ {id} :
                     TaskStatus(work', tid) = TaskStatus(work, tid)
                /\ finished_' = finished_ + 1
           ELSE /\ pc' = "aborted"
                /\ work' = work
                /\ finished_' = finished_]_vars

\* The master has aborted in the middle of an epoch, after a valid reap and
\* without a steal attempt in its last pass of the loop.
C23_Witness ==
  /\ pc = "aborted"
  /\ 0 < finished_
  /\ finished_ < NumShardsRun
  /\ finished_ = Cardinality(PlacedWith({FINISHED}))
  /\ PlacedWith({ACTIVE}) # {}
  /\ steal_calls = 0

====
